---- MODULE Spec2Model ----
(***************************************************************************)
(* Sales tracker (WB_L3_6): the storage layer over the PostgreSQL table    *)
(* "sales" and the gin HTTP handlers in front of it.                       *)
(*                                                                         *)
(* Units.  A Go-side models.Sale carries Amount as a float64 and Date as a *)
(* time.Time; the table stores amount as DECIMAL(10,2) and date as         *)
(* TIMESTAMPTZ.  The model writes Go-side amounts in thousandths (milli)   *)
(* and Go-side instants in nanoseconds, table amounts in hundredths        *)
(* (cents) and table instants in microseconds, so that both conversions    *)
(* are visible.                                                            *)
(***************************************************************************)
EXTENDS Integers, Sequences, FiniteSets, TLC

\* ---------------------------------------------------------------- bounds
\* The sequence sales_id_seq is only followed up to this value.
MaxSeq == 2

\* ------------------------------------------------------- program constants
\* DECIMAL(10,2): one stored unit (cent) is MilliPerCent thousandths.
MilliPerCent == 10
\* TIMESTAMPTZ: one stored unit (microsecond) is NanosPerMicro nanoseconds.
NanosPerMicro == 1000
\* Average is carried in AvgScale-ths of a cent.
AvgScale == 10000

StatusOK == 200
StatusCreated == 201
StatusNoContent == 204
StatusBadRequest == 400
StatusInternalServerError == 500
StatusNotImplemented == 501

\* ------------------------------------------------------------ input sets
\* CHECK (type IN ('income', 'expense'))
Kinds == {"income", "expense"}
\* Ids a caller may name in UpdateSale, DeleteSale or an /api/items/:id path.
IdInputs == 1..(MaxSeq + 1)

\* models.Sale as passed to the storage layer (ID is ignored by CreateSale).
Sale(id, t, a, d, c) == [ID |-> id, Type |-> t, Amount |-> a, Date |-> d, Category |-> c]

\* The sales a caller may submit.  Amount is in thousandths, Date in
\* nanoseconds.  Three pass the constraints of the table: one with a date
\* that is not a whole microsecond, one with an amount that is not a whole
\* cent, one with an empty category that shares its date with the second and
\* its amount with the first.  Four do not: a type outside the CHECK list, a zero
\* amount, a negative amount, and 0.004, which the column rounds to 0.00.
SaleInputs ==
    {Sale(0, "income", 1000, 1500, "food"),
     Sale(0, "expense", 5, 2000, "rent"),
     Sale(0, "expense", 1000, 2000, ""),
     Sale(0, "bogus", 1000, 1500, "food"),
     Sale(0, "income", 0, 1500, "food"),
     Sale(0, "expense", -1000, 2000, "rent"),
     Sale(0, "income", 4, 1500, "food")}

\* ------------------------------------------------------------ conversions
Abs(n) == IF n < 0 THEN -n ELSE n

\* float64 -> DECIMAL(10,2): numeric rounding to scale 2, half away from zero.
ToNumeric(milli) ==
    LET q == (Abs(milli) + (MilliPerCent \div 2)) \div MilliPerCent
    IN IF milli < 0 THEN -q ELSE q

\* DECIMAL(10,2) -> float64 on Scan.
FromNumeric(cents) == cents * MilliPerCent

\* time.Time -> TIMESTAMPTZ: the driver sends whole microseconds.
ToTimestamptz(nanos) == nanos \div NanosPerMicro

\* TIMESTAMPTZ -> time.Time on Scan.
FromTimestamptz(micros) == micros * NanosPerMicro

\* RowOf with the arguments bound one place off: $1 is written to category.
RowOfTypeAsCategory(id, sale) ==
    [id |-> id, type |-> sale.Type, amount |-> ToNumeric(sale.Amount),
     date |-> ToTimestamptz(sale.Date), category |-> sale.Type]

\* The row of table sales that an INSERT or UPDATE writes for a Sale.
RowOf(id, sale) ==
    [id |-> id, type |-> sale.Type, amount |-> ToNumeric(sale.Amount),
     date |-> ToTimestamptz(sale.Date), category |-> sale.Category]

\* rows.Scan(&sale.ID, &sale.Type, &sale.Amount, &sale.Date, &sale.Category)
ScanRow(r) ==
    Sale(r.id, r.type, FromNumeric(r.amount), FromTimestamptz(r.date), r.category)

\* CheckOK without CHECK (amount > 0).
CheckOKTypeOnly(r) == r.type \in {"income", "expense"}

\* CheckOK without CHECK (type IN ('income', 'expense')).
CheckOKAmountOnly(r) == r.amount > 0

\* The CHECK constraints of the table, evaluated on the row as stored.
CheckOK(r) == r.type \in Kinds /\ r.amount > 0

\* ----------------------------------------------------------------- errors
Nil == <<>>
\* fmt.Errorf("%s: %w", op, err)
Errorf(op, cause) == <<op, cause>>
CheckViolation == "check constraint"
ScanNull == "cannot scan NULL"

\* ------------------------------------------------------------------ state
VARIABLES
    sales,      \* the committed rows of table sales
    seq,        \* last value handed out by sales_id_seq
    inflight,   \* INSERTs that drew an id and have not committed yet
    drawLog,    \* ids given to INSERTs that passed the constraints, in draw order
    commitLog,  \* ids in the order their INSERT took effect
    before,     \* the committed rows when the last finished call started
    last,       \* the last finished storage call
    resp,       \* the HTTP response of the last finished handler, if any
    pending,    \* UpdateSale calls issued by concurrent callers, not yet executed
    boot        \* where the process is between main() and serving

vars == <<sales, seq, inflight, drawLog, commitLog, before, last, resp, pending, boot>>

NoSale == Sale(0, "", 0, 0, "")
NoSummary == [Sum |-> 0, Average |-> 0, Count |-> 0, Median |-> 0, Percentile90 |-> 0]
NoCall == [op |-> "none", sale |-> NoSale, from |-> 0, to |-> 0, err |-> Nil,
           out |-> <<>>, summary |-> NoSummary]
\* What a request carried besides its body fields: the :id path parameter,
\* the "id" field of the body, the from and to query parameters.
Request(path, bodyId, fromStr, toStr) ==
    [path |-> path, bodyId |-> bodyId, from |-> fromStr, to |-> toStr]
NoPath == [int |-> TRUE, n |-> 0]
NoQuery == [ok |-> TRUE, t |-> 0]
NoRequest == Request(NoPath, 0, NoQuery, NoQuery)
NoResp == [handler |-> "none", status |-> 0, body |-> NoSale, list |-> <<>>,
           summary |-> NoSummary, storeCalls |-> 0, req |-> NoRequest]

\* main(): the steps from process start to srv.Run, each with its outcome.
BootSteps == <<"loadConfig", "pgxpool.New", "migrate.New", "m.Up", "m.Version", "srv.Run">>
\* The process after every step succeeded: the router is serving.
BootServing ==
    [pc |-> "serving",
     log |-> [i \in 1..Len(BootSteps) |-> [step |-> BootSteps[i], result |-> "ok"]]]

Ids(S) == {r.id : r \in S}

Init ==
    /\ sales = {}
    /\ seq = 0
    /\ inflight = {}
    /\ drawLog = <<>>
    /\ commitLog = <<>>
    /\ before = {}
    /\ last = NoCall
    /\ resp = NoResp
    /\ pending = {}
    /\ boot = BootServing


\* ------------------------------------------------------ storage: CreateSale
\* INSERT INTO sales (type, amount, date, category) VALUES (...) RETURNING id
\* The statement draws nextval('sales_id_seq') for the SERIAL column, builds
\* the row and checks the constraints.  A value drawn from the sequence is
\* never given back, also when the statement fails.
InsertFails(sale) == ~CheckOK(RowOf(0, sale))

\* NextVal computed as MAX(id) + 1 over the visible rows instead of a sequence.
NextValMaxPlusOne ==
    IF sales = {} THEN 1
    ELSE (CHOOSE m \in Ids(sales) : \A k \in Ids(sales) : k <= m) + 1

\* NextVal over a sequence created with INCREMENT BY 2.
NextValByTwo == seq + 2

\* id SERIAL: the column default nextval('sales_id_seq').
NextVal == seq + 1

\* CreateSale whose INSERT violates a constraint: the call returns the error
\* wrapped with its op; sale.ID is left as it was.
CreateSaleRejected(sale, via) ==
    /\ seq < MaxSeq
    /\ InsertFails(sale)
    /\ seq' = seq + 1
    /\ before' = sales
    /\ last' = [NoCall EXCEPT !.op = "CreateSale", !.sale = sale,
                              !.err = Errorf("storage.CreateSale", CheckViolation)]
    /\ resp' = IF via = "api"
               THEN [NoResp EXCEPT !.handler = "createSale",
                                   !.status = StatusInternalServerError,
                                   !.storeCalls = 1]
               ELSE NoResp
    /\ UNCHANGED <<pending, boot, sales, inflight, drawLog, commitLog>>

\* CreateSale whose INSERT passes the constraints: the row exists with its id
\* but is not visible to other statements until the statement commits.
CreateSaleBegin(sale, via) ==
    /\ seq < MaxSeq
    /\ ~InsertFails(sale)
    /\ seq' = seq + 1
    /\ inflight' = inflight \cup {[row |-> RowOf(NextVal, sale), sale |-> sale, via |-> via]}
    /\ drawLog' = Append(drawLog, NextVal)
    /\ UNCHANGED <<pending, boot, sales, commitLog, before, last, resp>>

\* The INSERT commits; Scan(&sale.ID) stores the returned id and the call
\* returns nil.
CreateSaleCommit(f) ==
    /\ f \in inflight
    /\ inflight' = inflight \ {f}
    /\ sales' = sales \cup {f.row}
    /\ commitLog' = Append(commitLog, f.row.id)
    /\ before' = sales
    /\ last' = [NoCall EXCEPT !.op = "CreateSale",
                              !.sale = [f.sale EXCEPT !.ID = f.row.id]]
    /\ resp' = IF f.via = "api"
               THEN [NoResp EXCEPT !.handler = "createSale", !.status = StatusCreated,
                                   !.body = [f.sale EXCEPT !.ID = f.row.id],
                                   !.storeCalls = 1]
               ELSE NoResp
    /\ UNCHANGED <<pending, boot, seq, drawLog>>

\* -------------------------------------------------------- storage: GetSales
\* OrderByDateDesc with ORDER BY date ASC.
OrderByDateAsc(S) ==
    LET n == Cardinality(S)
    IN {s \in [1..n -> S] :
          /\ \A i, j \in 1..n : i # j => s[i] # s[j]
          /\ \A i \in 1..n : \A j \in 1..n : i < j => s[i].date <= s[j].date}

\* SELECT id, type, amount, date, category FROM sales ORDER BY date DESC
\* Rows with equal dates come in an order the engine chooses.
OrderByDateDesc(S) ==
    LET n == Cardinality(S)
    IN {s \in [1..n -> S] :
          /\ \A i, j \in 1..n : i # j => s[i] # s[j]
          /\ \A i \in 1..n : \A j \in 1..n : i < j => s[i].date >= s[j].date}

\* The effect of a GetSales call on the storage-side variables.
GetSalesCall(rows) ==
    /\ rows \in OrderByDateDesc(sales)
    /\ before' = sales
    /\ last' = [NoCall EXCEPT !.op = "GetSales",
                              !.out = [i \in 1..Len(rows) |-> ScanRow(rows[i])]]
    /\ UNCHANGED <<pending, boot, sales, seq, inflight, drawLog, commitLog>>

GetSales ==
    \E rows \in OrderByDateDesc(sales) :
        /\ GetSalesCall(rows)
        /\ resp' = NoResp

\* ------------------------------------------------------ storage: UpdateSale
\* UPDATE sales SET type=$1, amount=$2, date=$3, category=$4 WHERE id=$5
\* The new row is checked only when a row matches.
UpdateFails(sale) ==
    /\ sale.ID \in Ids(sales)
    /\ ~CheckOK(RowOf(sale.ID, sale))

\* UpdateRows writing type only when the row had none: the old type stays.
UpdateRowsKeepType(S, sale) ==
    {IF r.id = sale.ID THEN [RowOf(r.id, sale) EXCEPT !.type = r.type] ELSE r : r \in S}

\* UpdateRows with category left out of the SET list.
UpdateRowsKeepCategory(S, sale) ==
    {IF r.id = sale.ID THEN [RowOf(r.id, sale) EXCEPT !.category = r.category] ELSE r
       : r \in S}

\* UpdateRows as an upsert: a row is inserted when none matches.
UpdateRowsUpsert(S, sale) ==
    IF sale.ID \in Ids(S)
    THEN {IF r.id = sale.ID THEN RowOf(r.id, sale) ELSE r : r \in S}
    ELSE S \cup {RowOf(sale.ID, sale)}

UpdateRows(S, sale) ==
    {IF r.id = sale.ID THEN RowOf(r.id, sale) ELSE r : r \in S}

UpdateSaleCall(sale) ==
    /\ before' = sales
    /\ IF UpdateFails(sale)
       THEN /\ sales' = sales
            /\ last' = [NoCall EXCEPT !.op = "UpdateSale", !.sale = sale,
                                      !.err = Errorf("storage.UpdateSale", CheckViolation)]
       ELSE /\ sales' = UpdateRows(sales, sale)
            /\ last' = [NoCall EXCEPT !.op = "UpdateSale", !.sale = sale]
    /\ UNCHANGED <<pending, boot, seq, inflight, drawLog, commitLog>>

UpdateSale(sale) ==
    /\ UpdateSaleCall(sale)
    /\ resp' = NoResp

\* ------------------------------------------------------ storage: DeleteSale
\* DELETE FROM sales WHERE id=$1
\* DeleteRows with the WHERE clause lost.
DeleteRowsAll(S, id) == {}

DeleteRows(S, id) == {r \in S : r.id # id}

DeleteSaleCall(id) ==
    /\ before' = sales
    /\ sales' = DeleteRows(sales, id)
    /\ last' = [NoCall EXCEPT !.op = "DeleteSale", !.sale = [NoSale EXCEPT !.ID = id]]
    /\ UNCHANGED <<pending, boot, seq, inflight, drawLog, commitLog>>

DeleteSale(id) ==
    /\ DeleteSaleCall(id)
    /\ resp' = NoResp


\* ---------------------------------------------------- storage: GetAnalytics
\* Instants a caller may pass as from / to, in nanoseconds.
RangeInputs == {0, 1000, 1200, 2000}

\* Between with an exclusive upper end: date >= $1 AND date < $2.
BetweenExclusiveTo(S, from, to) ==
    {r \in S : ToTimestamptz(from) <= r.date /\ r.date < ToTimestamptz(to)}

\* WHERE date BETWEEN $1 AND $2, the parameters sent as TIMESTAMPTZ.
Between(S, from, to) ==
    {r \in S : ToTimestamptz(from) <= r.date /\ r.date <= ToTimestamptz(to)}

RECURSIVE SumAmount(_)
\* SUM(amount), in cents.
SumAmount(S) ==
    IF S = {} THEN 0
    ELSE LET r == CHOOSE x \in S : TRUE IN r.amount + SumAmount(S \ {r})

\* AVG(amount) over a non-empty set, in AvgScale-ths of a cent, rounded.
AvgAmount(S) ==
    LET n == Cardinality(S)
    IN (2 * SumAmount(S) * AvgScale + n) \div (2 * n)

RECURSIVE OrderByAmount(_)
\* WITHIN GROUP (ORDER BY amount): the amounts in ascending order.
OrderByAmount(S) ==
    IF S = {} THEN <<>>
    ELSE LET r == CHOOSE x \in S : \A y \in S : x.amount <= y.amount
         IN <<r.amount>> \o OrderByAmount(S \ {r})

\* PERCENTILE_DISC in place of PERCENTILE_CONT: the first value whose
\* cumulative share reaches tenths / 10, with no interpolation.
PercentileDisc(tenths, v) ==
    LET k == (tenths * Len(v) + 9) \div 10
    IN v[IF k < 1 THEN 1 ELSE k] * MilliPerCent

\* PERCENTILE_CONT(tenths / 10) over a non-empty ascending sequence of cents:
\* the value at row position tenths * (N - 1) / 10, interpolated between the
\* two neighbouring rows.  The result is in thousandths.
PercentileCont(tenths, v) ==
    LET pos  == tenths * (Len(v) - 1)
        lo   == (pos \div 10) + 1
        frac == pos % 10
        hi   == IF frac = 0 THEN lo ELSE lo + 1
    IN v[lo] * MilliPerCent + frac * (v[hi] - v[lo])

\* The one row the aggregate query returns, or NULL in the two percentile
\* columns when no row matches; Scan into float64 fails on NULL.
Aggregate(S) ==
    [Sum |-> FromNumeric(SumAmount(S)),
     Average |-> AvgAmount(S),
     Count |-> Cardinality(S),
     Median |-> PercentileCont(5, OrderByAmount(S)),
     Percentile90 |-> PercentileCont(9, OrderByAmount(S))]

PercentileIsNull(S) == S = {}

GetAnalyticsCall(from, to) ==
    /\ before' = sales
    /\ LET M == Between(sales, from, to)
       IN last' = IF PercentileIsNull(M)
                  THEN [NoCall EXCEPT !.op = "GetAnalytics", !.from = from, !.to = to,
                                      !.err = Errorf("storage.GetAnalytics", ScanNull)]
                  ELSE [NoCall EXCEPT !.op = "GetAnalytics", !.from = from, !.to = to,
                                      !.summary = Aggregate(M)]
    /\ UNCHANGED <<pending, boot, sales, seq, inflight, drawLog, commitLog>>

GetAnalytics(from, to) ==
    /\ GetAnalyticsCall(from, to)
    /\ resp' = NoResp

\* ------------------------------------------------------------ storage spec
CreateSale(sale) ==
    \/ CreateSaleRejected(sale, "store")
    \/ CreateSaleBegin(sale, "store")

Next ==
    \/ \E sale \in SaleInputs : CreateSale(sale)
    \/ \E f \in inflight : CreateSaleCommit(f)
    \/ GetSales
    \/ \E sale \in SaleInputs, id \in IdInputs : UpdateSale([sale EXCEPT !.ID = id])
    \/ \E id \in IdInputs : DeleteSale(id)
    \/ \E from \in RangeInputs, to \in RangeInputs : GetAnalytics(from, to)

Spec == Init /\ [][Next]_vars


\* ------------------------------------------------------------ HTTP handlers
\* A JSON request body: the fields of a Sale, or a body json.Unmarshal cannot
\* decode into models.Sale (an amount that is not a number, a date that is not
\* an RFC3339 string).
Body(sale, malformed) == [sale |-> sale, malformed |-> malformed]

\* Ids a client may put in the "id" field of a body.
BodyIdInputs == {0, 1}

\* Every sale without an "id" field, one sale with each id, and the two
\* bodies that cannot be decoded.
BodyInputs ==
    {Body(sale, "none") : sale \in SaleInputs}
      \cup {Body(Sale(id, "expense", 5, 2000, "rent"), "none") : id \in BodyIdInputs}
      \cup {Body(NoSale, m) : m \in {"amount", "date"}}

\* c.ShouldBindJSON(&sale): decoding, then gin's validator, which reads the
\* struct tag "binding".  models.Sale carries its rules under the tag
\* "validate", so no rule is applied and only decoding can fail.
ShouldBindJSON(body) == IF body.malformed = "none" THEN Nil ELSE <<"json", body.malformed>>

\* The :id path parameter: decimal text of an integer, or other text.
PathInputs == {[int |-> TRUE, n |-> id] : id \in IdInputs} \cup {[int |-> FALSE, n |-> 0]}

\* Atoi with its error dropped: id, _ := strconv.Atoi(...).
AtoiErrorDropped(path) == Nil

\* strconv.Atoi(c.Param("id"))
Atoi(path) == IF path.int THEN Nil ELSE <<"strconv.Atoi", "invalid syntax">>

\* A from / to query parameter: an RFC3339 instant, or text that is missing
\* or not RFC3339.
QueryInputs == {[ok |-> TRUE, t |-> t] : t \in RangeInputs} \cup {[ok |-> FALSE, t |-> 0]}

\* time.Parse(time.RFC3339, str)
TimeParse(q) == IF q.ok THEN Nil ELSE <<"time.Parse", "cannot parse">>

\* A handler that answers without calling the storage.
Answer(handler, status, req) ==
    /\ resp' = [NoResp EXCEPT !.handler = handler, !.status = status, !.req = req]
    /\ before' = sales
    /\ last' = NoCall
    /\ UNCHANGED <<pending, boot, sales, seq, inflight, drawLog, commitLog>>

\* POST /api/items
createSale(body) ==
    IF ShouldBindJSON(body) # Nil
    THEN Answer("createSale", StatusBadRequest, NoRequest)
    ELSE \/ CreateSaleRejected(body.sale, "api")
         \/ CreateSaleBegin(body.sale, "api")

\* GET /api/items
getSales ==
    \E rows \in OrderByDateDesc(sales) :
        /\ GetSalesCall(rows)
        /\ resp' = [NoResp EXCEPT !.handler = "getSales", !.status = StatusOK,
                                  !.list = last'.out, !.storeCalls = 1]

\* updateSale keeping an id given in the body, the path id only as default.
BodyIdWins(path, sale) == IF sale.ID # 0 THEN sale ELSE [sale EXCEPT !.ID = path.n]

\* sale.ID = id
PathIdWins(path, sale) == [sale EXCEPT !.ID = path.n]

\* PUT /api/items/:id
updateSale(path, body) ==
    LET req == Request(path, body.sale.ID, NoQuery, NoQuery)
    IN IF Atoi(path) # Nil
       THEN Answer("updateSale", StatusBadRequest, req)
       ELSE IF ShouldBindJSON(body) # Nil
       THEN Answer("updateSale", StatusBadRequest, req)
       ELSE LET sale == PathIdWins(path, body.sale)
            IN /\ UpdateSaleCall(sale)
               /\ resp' = IF last'.err # Nil
                          THEN [NoResp EXCEPT !.handler = "updateSale",
                                              !.status = StatusInternalServerError,
                                              !.storeCalls = 1, !.req = req]
                          ELSE [NoResp EXCEPT !.handler = "updateSale",
                                              !.status = StatusOK,
                                              !.body = sale, !.storeCalls = 1, !.req = req]

\* DELETE /api/items/:id
deleteSale(path) ==
    LET req == Request(path, 0, NoQuery, NoQuery)
    IN IF Atoi(path) # Nil
       THEN Answer("deleteSale", StatusBadRequest, req)
       ELSE /\ DeleteSaleCall(path.n)
            /\ resp' = [NoResp EXCEPT !.handler = "deleteSale",
                                      !.status = StatusNoContent,
                                      !.storeCalls = 1, !.req = req]

\* GET /api/analytics?from=&to=
getAnalytics(fromStr, toStr) ==
    LET req == Request(NoPath, 0, fromStr, toStr)
    IN IF TimeParse(fromStr) # Nil
       THEN Answer("getAnalytics", StatusBadRequest, req)
       ELSE IF TimeParse(toStr) # Nil
       THEN Answer("getAnalytics", StatusBadRequest, req)
       ELSE /\ GetAnalyticsCall(fromStr.t, toStr.t)
            /\ resp' = IF last'.err # Nil
                       THEN [NoResp EXCEPT !.handler = "getAnalytics",
                                           !.status = StatusInternalServerError,
                                           !.storeCalls = 1, !.req = req]
                       ELSE [NoResp EXCEPT !.handler = "getAnalytics",
                                           !.status = StatusOK,
                                           !.summary = last'.summary,
                                           !.storeCalls = 1, !.req = req]

\* GET /api/export
\* exportCSV implemented as a listing of the table.
exportCSVListing ==
    \E rows \in OrderByDateDesc(sales) :
        /\ GetSalesCall(rows)
        /\ resp' = [NoResp EXCEPT !.handler = "exportCSV", !.status = StatusOK,
                                  !.list = last'.out, !.storeCalls = 1]

exportCSV == Answer("exportCSV", StatusNotImplemented, NoRequest)

NextApi ==
    \/ \E body \in BodyInputs : createSale(body)
    \/ \E f \in inflight : CreateSaleCommit(f)
    \/ getSales
    \/ \E path \in PathInputs, body \in BodyInputs : updateSale(path, body)
    \/ \E path \in PathInputs : deleteSale(path)
    \/ \E fromStr \in QueryInputs, toStr \in QueryInputs : getAnalytics(fromStr, toStr)
    \/ exportCSV

SpecApi == Init /\ [][NextApi]_vars


\* ------------------------------------------------------------------ startup
\* The outcomes each step of main() / InitDB can have.
BootResults(step) ==
    IF step = "m.Up" THEN {"ok", "ErrNoChange", "error"}
    ELSE IF step = "m.Version" THEN {"ok", "ErrNilVersion", "error"}
    ELSE {"ok", "error"}

\* StepFails with the error of m.Up logged and ignored.
StepFailsIgnoreUp(step, result) ==
    IF step = "m.Up" THEN FALSE
    ELSE IF step = "m.Version" THEN result \notin {"ok", "ErrNilVersion"}
    ELSE result # "ok"

\* The error checks after each step: m.Up tolerates migrate.ErrNoChange,
\* m.Version tolerates migrate.ErrNilVersion, every other error is fatal.
StepFails(step, result) ==
    IF step = "m.Up" THEN result \notin {"ok", "ErrNoChange"}
    ELSE IF step = "m.Version" THEN result \notin {"ok", "ErrNilVersion"}
    ELSE result # "ok"

\* One step of startup: on failure log.Fatal ends the process (InitDB returns
\* the error to main, which calls log.Fatal), otherwise the next step follows.
Advance(step, next, result) ==
    /\ boot.pc = step
    /\ boot' = [pc |-> IF StepFails(step, result) THEN "exit" ELSE next,
                log |-> Append(boot.log, [step |-> step, result |-> result])]
    /\ UNCHANGED <<sales, seq, inflight, drawLog, commitLog, before, last, resp, pending>>

\* cleanenv.ReadConfig(path, conf)
LoadConfig(result) == Advance("loadConfig", "pgxpool.New", result)
\* pgxpool.New(context.Background(), dsn)
PoolNew(result) == Advance("pgxpool.New", "migrate.New", result)
\* migrate.New("file://migrations", dsn)
MigrateNew(result) == Advance("migrate.New", "m.Up", result)
\* m.Up()
MigrateUp(result) == Advance("m.Up", "m.Version", result)
\* m.Version()
MigrateVersion(result) == Advance("m.Version", "srv.Run", result)
\* NewStorage, NewServer, srv.Run(cfg.Server.Port): the listener is up, or
\* Run returns its error and main calls log.Fatal.
Run(result) == Advance("srv.Run", "serving", result)

\* The process at the first line of main(), the table not yet migrated.
InitBoot ==
    /\ sales = {}
    /\ seq = 0
    /\ inflight = {}
    /\ drawLog = <<>>
    /\ commitLog = <<>>
    /\ before = {}
    /\ last = NoCall
    /\ resp = NoResp
    /\ pending = {}
    /\ boot = [pc |-> "loadConfig", log |-> <<>>]

\* The router dispatches requests only while s.router.Run is running.
Serving == boot.pc = "serving"

\* The bodies sent to a freshly started server: a valid sale, one with a type
\* outside the CHECK list, one that cannot be decoded.
BootBodyInputs ==
    {Body(Sale(0, "income", 1000, 1500, "food"), "none"),
     Body(Sale(0, "bogus", 1000, 1500, "food"), "none"),
     Body(NoSale, "date")}

NextBoot ==
    \/ \E result \in BootResults("loadConfig") : LoadConfig(result)
    \/ \E result \in BootResults("pgxpool.New") : PoolNew(result)
    \/ \E result \in BootResults("migrate.New") : MigrateNew(result)
    \/ \E result \in BootResults("m.Up") : MigrateUp(result)
    \/ \E result \in BootResults("m.Version") : MigrateVersion(result)
    \/ \E result \in BootResults("srv.Run") : Run(result)
    \/ \E body \in BootBodyInputs : Serving /\ createSale(body)
    \/ \E f \in inflight : Serving /\ CreateSaleCommit(f)
    \/ Serving /\ getSales
    \/ \E path \in PathInputs, body \in BootBodyInputs : Serving /\ updateSale(path, body)
    \/ \E path \in PathInputs : Serving /\ deleteSale(path)
    \/ \E fromStr \in QueryInputs, toStr \in QueryInputs :
          Serving /\ getAnalytics(fromStr, toStr)
    \/ Serving /\ exportCSV

SpecBoot == InitBoot /\ [][NextBoot]_vars

\* ------------------------------------------------------- concurrent updates
\* UpdateSale calls that may be waiting on the database at the same time.
MaxPending == 2

\* The id the concurrent UpdateSale calls aim at.
UpdateTargets == {1}

\* A caller enters UpdateSale; its UPDATE has not been executed yet.
UpdateIssue(sale) ==
    /\ Cardinality(pending) < MaxPending
    /\ sale \notin pending
    /\ pending' = pending \cup {sale}
    /\ UNCHANGED <<sales, seq, inflight, drawLog, commitLog, before, last, resp, boot>>

\* The database executes the UPDATE of one waiting call, as one statement,
\* and the call returns.
UpdateApply(sale) ==
    /\ sale \in pending
    /\ pending' = pending \ {sale}
    /\ before' = sales
    /\ IF UpdateFails(sale)
       THEN /\ sales' = sales
            /\ last' = [NoCall EXCEPT !.op = "UpdateSale", !.sale = sale,
                                      !.err = Errorf("storage.UpdateSale", CheckViolation)]
       ELSE /\ sales' = UpdateRows(sales, sale)
            /\ last' = [NoCall EXCEPT !.op = "UpdateSale", !.sale = sale]
    /\ resp' = NoResp
    /\ UNCHANGED <<seq, inflight, drawLog, commitLog, boot>>

NextConc ==
    \/ \E sale \in SaleInputs : CreateSale(sale)
    \/ \E f \in inflight : CreateSaleCommit(f)
    \/ \E sale \in SaleInputs, id \in UpdateTargets : UpdateIssue([sale EXCEPT !.ID = id])
    \/ \E sale \in pending : UpdateApply(sale)
    \/ GetSales

SpecConc == Init /\ [][NextConc]_vars

\* =================================================================== claims
Range(s) == {s[i] : i \in DOMAIN s}

StrictlyIncreasing(s) == \A i, j \in DOMAIN s : i < j => s[i] < s[j]

\* The stored rows the last GetAnalytics call had to aggregate, taking from
\* and to exactly as the caller gave them (nanoseconds).
MatchingExact ==
    {r \in before : last.from <= r.date * NanosPerMicro /\ r.date * NanosPerMicro <= last.to}

\* The same, with from cut down to a whole microsecond first.
MatchingTruncated ==
    {r \in before :
        /\ (last.from \div NanosPerMicro) * NanosPerMicro <= r.date * NanosPerMicro
        /\ r.date * NanosPerMicro <= last.to}

\* C1: Analytics(from, to) with no stored entry in [from, to] returns no
\* error and a summary with count 0 and sum, average, median and
\* percentile90 all 0.
C1_NoMatchZeroSummary ==
    (last.op = "GetAnalytics" /\ MatchingTruncated = {}) =>
        /\ last.err = Nil
        /\ last.summary = [Sum |-> 0, Average |-> 0, Count |-> 0,
                           Median |-> 0, Percentile90 |-> 0]

\* What the API layer is said to require of a body before the store is used.
ValidBody(sale) ==
    /\ sale.Type \in {"income", "expense"}
    /\ sale.Amount > 0
    /\ sale.Category # ""

\* C2: POST /api/items and PUT /api/items/{id} never hand the store a sale
\* whose kind is not income or expense, whose amount is not positive or whose
\* category is empty: such a body is answered 400 with no store call and the
\* stored rows unchanged.
C2_InvalidBodyRejectedBeforeStore ==
    (resp.handler \in {"createSale", "updateSale"} /\ ~ValidBody(last.sale)) =>
        /\ resp.status = StatusBadRequest
        /\ resp.storeCalls = 0
        /\ last.op = "none"
        /\ sales = before

C4_IdsIncreaseInCommitOrder == StrictlyIncreasing(commitLog)

\* C4 amended: ids are strictly increasing in the order creates draw them from
\* the sequence; no id is ever assigned twice, also after deletes; a created
\* entry never gets an id that is or was held by another entry; no operation
\* changes the id of an existing entry.
C4_IdsUniqueAndIncreaseInDrawOrder ==
    /\ StrictlyIncreasing(drawLog)
    /\ \A i, j \in DOMAIN commitLog : i # j => commitLog[i] # commitLog[j]
    /\ Range(commitLog) \subseteq Range(drawLog)
    /\ Ids(sales) \subseteq Range(commitLog)
    /\ Cardinality(Ids(sales)) = Cardinality(sales)
    /\ \A f \in inflight : f.row.id \notin Range(commitLog)
    /\ (last.op = "CreateSale" /\ last.err = Nil) =>
          /\ last.sale.ID \notin Ids(before)
          /\ last.sale.ID \notin Range(SubSeq(commitLog, 1, Len(commitLog) - 1))
          /\ Ids(sales) = Ids(before) \cup {last.sale.ID}
    /\ last.op \in {"UpdateSale", "GetSales", "GetAnalytics"} => Ids(sales) = Ids(before)
    /\ last.op = "DeleteSale" => Ids(sales) = Ids(before) \ {last.sale.ID}

\* C4 witness: a create took effect after an entry with a higher id did, and
\* after an entry had been deleted.
C4_Witness ==
    /\ last.op = "CreateSale"
    /\ last.err = Nil
    /\ ~StrictlyIncreasing(commitLog)
    /\ Cardinality(sales) < Len(commitLog)


\* C5 as stated: after a successful Create(e) of a valid e, every List()
\* contains an entry with the assigned id whose kind, amount, occurred_at and
\* category equal those of e exactly, and no other listed entry has that id.
C5_CreateThenListExact ==
    (last.op = "CreateSale" /\ last.err = Nil /\ ValidBody(last.sale)) =>
        \A rows \in OrderByDateDesc(sales) :
            /\ \E i \in DOMAIN rows : ScanRow(rows[i]) = last.sale
            /\ \A i, j \in DOMAIN rows : rows[i].id = last.sale.ID /\ i # j
                                            => rows[j].id # last.sale.ID

\* C5 amended: the listed entry has the assigned id, the kind and category of
\* e, the amount of e rounded to a whole cent and the occurred_at of e cut to
\* a whole microsecond; no other listed entry has that id.
C5_CreateThenListRounded ==
    (last.op = "CreateSale" /\ last.err = Nil /\ ValidBody(last.sale)) =>
        \A rows \in OrderByDateDesc(sales) :
            /\ \E i \in DOMAIN rows :
                 LET x == ScanRow(rows[i])
                     e == last.sale
                 IN /\ x.ID = e.ID
                    /\ x.Type = e.Type
                    /\ x.Category = e.Category
                    /\ x.Amount % MilliPerCent = 0
                    /\ 2 * Abs(x.Amount - e.Amount) <= MilliPerCent
                    /\ x.Date % NanosPerMicro = 0
                    /\ x.Date <= e.Date
                    /\ e.Date < x.Date + NanosPerMicro
            /\ \A i, j \in DOMAIN rows : rows[i].id = last.sale.ID /\ i # j
                                            => rows[j].id # last.sale.ID

\* C5 witness: a valid sale whose date is not a whole microsecond was created
\* next to another entry.
C5_Witness ==
    /\ last.op = "CreateSale"
    /\ last.err = Nil
    /\ ValidBody(last.sale)
    /\ last.sale.Date % NanosPerMicro # 0
    /\ Cardinality(sales) >= 2

\* C6: Create with amount <= 0 or kind outside {income, expense} returns an
\* error tagged storage.CreateSale, adds no entry and leaves every stored
\* entry unchanged; no such sale is ever waiting to be committed.
C6_CreateRejectsInvalid ==
    /\ (last.op = "CreateSale"
          /\ (last.sale.Amount <= 0 \/ last.sale.Type \notin {"income", "expense"})) =>
            /\ last.err # Nil
            /\ last.err[1] = "storage.CreateSale"
            /\ sales = before
    /\ \A f \in inflight :
            f.sale.Amount > 0 /\ f.sale.Type \in {"income", "expense"}

\* C6 witness: a Create with an unknown kind was refused while an entry is
\* stored.
C6_Witness ==
    /\ last.op = "CreateSale"
    /\ last.sale.Type = "bogus"
    /\ last.err # Nil
    /\ sales # {}

\* C7: List() returns every stored entry exactly once, ordered by occurred_at
\* descending, with no error; on an empty store the result is empty.
C7_ListAllSortedDesc ==
    last.op = "GetSales" =>
        /\ last.err = Nil
        /\ Len(last.out) = Cardinality(before)
        /\ {last.out[i].ID : i \in DOMAIN last.out} = Ids(before)
        /\ \A i \in DOMAIN last.out : \E r \in before : ScanRow(r) = last.out[i]
        /\ \A i \in 1..(Len(last.out) - 1) : last.out[i].Date >= last.out[i + 1].Date
        /\ (before = {} => last.out = <<>>)
        /\ sales = before

\* C7 witness: a list of two entries with different dates was returned.
C7_Witness ==
    /\ last.op = "GetSales"
    /\ Len(last.out) = 2
    /\ last.out[1].Date > last.out[2].Date

\* C8: Update with an id that matches no stored entry: the store returns no
\* error, PUT answers 200 echoing the submitted entry with that id, no entry
\* is created and every stored entry is unchanged.
C8_UpdateMissingIdIsNoOp ==
    (resp.handler = "updateSale" /\ resp.storeCalls = 1
        /\ last.sale.ID \notin Ids(before)) =>
            /\ last.op = "UpdateSale"
            /\ last.err = Nil
            /\ resp.status = StatusOK
            /\ resp.body = last.sale
            /\ sales = before

\* C8 witness: a PUT for an id that is not stored was answered while an entry
\* is stored.
C8_Witness ==
    /\ resp.handler = "updateSale"
    /\ resp.status = StatusOK
    /\ last.sale.ID \notin Ids(before)
    /\ before # {}

\* C9: Delete(id) removes the entry with that id and no other and returns no
\* error; when the id is not stored nothing changes; a second Delete(id)
\* would leave the store as it is.
C9_DeleteExactAndIdempotent ==
    last.op = "DeleteSale" =>
        /\ last.err = Nil
        /\ sales = {r \in before : r.id # last.sale.ID}
        /\ (last.sale.ID \notin Ids(before) => sales = before)
        /\ DeleteRows(sales, last.sale.ID) = sales

\* C9 witness: a Delete removed one entry and left another.
C9_Witness ==
    /\ last.op = "DeleteSale"
    /\ last.sale.ID \in Ids(before)
    /\ sales # {}

\* The summary the last GetAnalytics call must return for the rows M.
SummaryMatches(M) ==
    /\ last.summary.Count = Cardinality(M)
    /\ last.summary.Sum = SumAmount(M) * MilliPerCent
    /\ 2 * Abs(last.summary.Average * last.summary.Count - SumAmount(M) * AvgScale)
          <= last.summary.Count

StatRows == 10

StatSale(i) == Sale(0, "income", i * 10000, i * NanosPerMicro, "Statistical Test")

StatTable == {RowOf(i, StatSale(i)) : i \in 1..StatRows}

\* Instants passed as from / to over that table, in nanoseconds.
StatRangeInputs == {1000, 5500, 10000}

\* The state after the ten CreateSale calls, made one after the other.
InitStat ==
    /\ sales = StatTable
    /\ seq = StatRows
    /\ inflight = {}
    /\ drawLog = [i \in 1..StatRows |-> i]
    /\ commitLog = [i \in 1..StatRows |-> i]
    /\ before = StatTable \ {RowOf(StatRows, StatSale(StatRows))}
    /\ last = [NoCall EXCEPT !.op = "CreateSale",
                             !.sale = [StatSale(StatRows) EXCEPT !.ID = StatRows]]
    /\ resp = NoResp
    /\ pending = {}
    /\ boot = BootServing

NextStat ==
    \/ \E id \in 1..StatRows : DeleteSale(id)
    \/ \E from \in StatRangeInputs, to \in StatRangeInputs : GetAnalytics(from, to)

SpecStat == InitStat /\ [][NextStat]_vars

\* The amount at 0-based rank k among the amounts of M in ascending order.
Ranked(M, k) ==
    CHOOSE a \in {r.amount : r \in M} :
        /\ Cardinality({r \in M : r.amount < a}) <= k
        /\ k < Cardinality({r \in M : r.amount <= a})

\* The continuous percentile tenths / 10 of the amounts of M, in thousandths:
\* position tenths * (N - 1) / 10, interpolated between its two neighbours.
Interpolated(M, tenths) ==
    LET N   == Cardinality(M)
        pos == tenths * (N - 1)
        k   == pos \div 10
        f   == pos % 10
        k2  == IF k + 1 < N THEN k + 1 ELSE k
    IN Ranked(M, k) * MilliPerCent + f * (Ranked(M, k2) - Ranked(M, k))

\* C11: for N >= 1 matching entries, median and percentile90 are the
\* continuous percentiles 0.5 and 0.9 of the matching amounts; 10, 20, ...,
\* 100 give sum 550, count 10, average 55, median 55 and percentile90 91; a
\* single matching entry gives median = percentile90 = its amount.
C11_PercentilesInterpolated ==
    (last.op = "GetAnalytics" /\ last.err = Nil) =>
        LET M == MatchingTruncated
        IN /\ M # {}
           /\ last.summary.Median = Interpolated(M, 5)
           /\ last.summary.Percentile90 = Interpolated(M, 9)
           /\ \A r \in M : M = {r} =>
                 /\ last.summary.Median = r.amount * MilliPerCent
                 /\ last.summary.Percentile90 = r.amount * MilliPerCent
           /\ M = StatTable =>
                 /\ last.summary.Sum = 550000
                 /\ last.summary.Count = 10
                 /\ last.summary.Average = 5500 * AvgScale
                 /\ last.summary.Median = 55000
                 /\ last.summary.Percentile90 = 91000

\* C11 witness: the ten sales were aggregated together.
C11_Witness ==
    /\ last.op = "GetAnalytics"
    /\ last.err = Nil
    /\ last.summary.Count = StatRows
    /\ last.summary.Percentile90 = 91000


\* The last call was an UpdateSale that matched a stored entry and succeeded.
UpdatedExisting ==
    /\ last.op = "UpdateSale"
    /\ last.err = Nil
    /\ last.sale.ID \in Ids(before)

\* What an UpdateSale leaves alone: the number of entries and every entry
\* with another id; one listed entry carries the updated id.
UpdateFrame(rows) ==
    /\ Len(rows) = Cardinality(before)
    /\ \A r \in before : r.id # last.sale.ID => r \in sales
    /\ Cardinality({i \in DOMAIN rows : rows[i].id = last.sale.ID}) = 1

\* C12 as stated: after a successful Update of an existing entry every List()
\* shows that entry with exactly the supplied kind, amount, occurred_at and
\* category under the same id, every other entry untouched and the number of
\* entries unchanged.
C12_UpdateThenListExact ==
    UpdatedExisting =>
        \A rows \in OrderByDateDesc(sales) :
            /\ UpdateFrame(rows)
            /\ \E i \in DOMAIN rows : ScanRow(rows[i]) = last.sale

\* C12 amended: the listed entry has the supplied kind and category, the
\* supplied amount rounded to a whole cent and the supplied occurred_at cut
\* to a whole microsecond, all four from this update and none from before.
C12_UpdateThenListRounded ==
    UpdatedExisting =>
        \A rows \in OrderByDateDesc(sales) :
            /\ UpdateFrame(rows)
            /\ \E i \in DOMAIN rows :
                 LET x == ScanRow(rows[i])
                     e == last.sale
                 IN /\ x.ID = e.ID
                    /\ x.Type = e.Type
                    /\ x.Category = e.Category
                    /\ x.Amount % MilliPerCent = 0
                    /\ 2 * Abs(x.Amount - e.Amount) <= MilliPerCent
                    /\ x.Date % NanosPerMicro = 0
                    /\ x.Date <= e.Date
                    /\ e.Date < x.Date + NanosPerMicro

\* C12 witness: an update changed all four fields of an entry stored next to
\* another one.
C12_Witness ==
    /\ UpdatedExisting
    /\ Cardinality(sales) >= 2
    /\ \E old \in before, new \in sales :
          /\ old.id = last.sale.ID
          /\ new.id = last.sale.ID
          /\ old.type # new.type
          /\ old.amount # new.amount
          /\ old.date # new.date
          /\ old.category # new.category

RejectedAtTheDoor ==
    /\ resp.status = StatusBadRequest
    /\ resp.storeCalls = 0
    /\ last.op = "none"
    /\ sales = before
    /\ boot.pc = "serving"

\* C14: PUT or DELETE /api/items/{id} with an {id} that is not an integer,
\* and GET /api/analytics with from or to missing or not RFC3339, are
\* answered 400 with no store operation and the stored entries unchanged;
\* never 500, and the process keeps running.
C14_BadParametersRejected ==
    /\ (resp.handler \in {"updateSale", "deleteSale"} /\ ~resp.req.path.int)
          => RejectedAtTheDoor
    /\ (resp.handler = "getAnalytics" /\ (~resp.req.from.ok \/ ~resp.req.to.ok))
          => RejectedAtTheDoor

\* C14 witness: a PUT with a path id that is not an integer was answered
\* while an entry is stored.
C14_Witness ==
    /\ resp.handler = "updateSale"
    /\ ~resp.req.path.int
    /\ resp.status = StatusBadRequest
    /\ sales # {}

\* C15: GET /api/items, GET /api/analytics and GET /api/export never change
\* the stored entries or the id sequence, whatever their outcome; GET
\* /api/export always answers 501 and performs no store operation.
C15_GetsArePureReads ==
    /\ [](resp.handler \in {"getSales", "getAnalytics", "exportCSV"} => sales = before)
    /\ [](resp.handler = "exportCSV" =>
             /\ resp.status = StatusNotImplemented
             /\ resp.storeCalls = 0
             /\ last.op = "none")
    /\ [][(/\ resp'.handler \in {"getSales", "getAnalytics", "exportCSV"}
           /\ <<resp, last, before>>' # <<resp, last, before>>)
             => /\ sales' = sales
                /\ seq' = seq
                /\ inflight' = inflight
                /\ drawLog' = drawLog
                /\ commitLog' = commitLog]_vars

\* C15 witness: GET /api/analytics failed with 500 while an entry is stored
\* and an INSERT is in flight.
C15_Witness ==
    /\ resp.handler = "getAnalytics"
    /\ resp.status = StatusInternalServerError
    /\ sales # {}
    /\ inflight # {}

\* The row r carries the complete field set of one sale a caller submitted.
CompleteVersion(r) ==
    \E s \in SaleInputs :
        /\ r.type = s.Type
        /\ r.category = s.Category
        /\ r.date = s.Date \div NanosPerMicro
        /\ 2 * Abs(r.amount * MilliPerCent - s.Amount) <= MilliPerCent

C17_PathIdWins ==
    (resp.handler = "updateSale" /\ resp.storeCalls = 1) =>
        /\ last.op = "UpdateSale"
        /\ last.sale.ID = resp.req.path.n
        /\ \A r \in before : r.id # resp.req.path.n => r \in sales
        /\ \A r \in sales : r.id # resp.req.path.n => r \in before
        /\ Ids(sales) = Ids(before)
        /\ resp.status = StatusOK => resp.body.ID = resp.req.path.n

\* C17 witness: a PUT whose body names another stored entry changed the entry
\* of the path.
C17_Witness ==
    /\ resp.handler = "updateSale"
    /\ resp.status = StatusOK
    /\ resp.req.bodyId # resp.req.path.n
    /\ resp.req.bodyId \in Ids(before)
    /\ resp.req.path.n \in Ids(before)
    /\ sales # before

\* Something was served: a response was sent or the store was used.
Served ==
    \/ resp # NoResp
    \/ last # NoCall
    \/ sales # {}
    \/ seq # 0
    \/ inflight # {}

\* A startup step ended with an error that is not tolerated.
StartupFailed ==
    \E i \in DOMAIN boot.log :
        \/ boot.log[i].step \in {"loadConfig", "pgxpool.New", "migrate.New", "srv.Run"}
              /\ boot.log[i].result # "ok"
        \/ boot.log[i].step = "m.Up" /\ boot.log[i].result \notin {"ok", "ErrNoChange"}
        \/ boot.log[i].step = "m.Version"
              /\ boot.log[i].result \notin {"ok", "ErrNilVersion"}

\* C18: requests are served only after the configuration was read, the pool
\* was created and the migrations were applied or reported no change, in
\* that order; when a startup step fails the process has terminated and
\* never served a request.
C18_StartupOrderedAllOrNothing ==
    /\ (Served \/ boot.pc = "serving") =>
          /\ boot.pc = "serving"
          /\ Len(boot.log) >= 4
          /\ boot.log[1] = [step |-> "loadConfig", result |-> "ok"]
          /\ boot.log[2] = [step |-> "pgxpool.New", result |-> "ok"]
          /\ boot.log[3] = [step |-> "migrate.New", result |-> "ok"]
          /\ boot.log[4].step = "m.Up"
          /\ boot.log[4].result \in {"ok", "ErrNoChange"}
          /\ ~StartupFailed
    /\ StartupFailed => (boot.pc = "exit" /\ ~Served)

\* C18 witness: a request was served after m.Up reported no change.
C18_Witness ==
    /\ Served
    /\ sales # {}
    /\ boot.log[4].result = "ErrNoChange"

====
